---- MODULE Spec2Model ----
(* Montreal Pickleball Court Finder: a model of pickleball_search.py.        *)
(* One search invocation is a sequential process: validation of the date and *)
(* the time, the past-date check, one HTTP POST, decoding, normalisation of  *)
(* the response items and the returned envelope; main() then turns the       *)
(* envelope into an exit code.                                               *)
(*                                                                           *)
(* Python strings are sequences of one-character strings. Python values      *)
(* decoded from JSON are tagged records: [t |-> "null"], [t |-> "bool", b],  *)
(* [t |-> "num", n] (thousandths), [t |-> "str", s], [t |-> "list", l] and    *)
(* [t |-> "dict", d] (d a function from keys to values).                     *)
EXTENDS Integers, Sequences, FiniteSets, TLC

VARIABLES
    pc,             \* where the current invocation stands
    entry,          \* how it was entered: "main", "function" (the module-level
                    \* convenience function) or "method" (on the caller's searcher)
    args,           \* main's options: [json, limit]
    date_iso,       \* the date_iso argument of search_pickleball_courts
    time_24h,       \* its time_24h argument
    today,          \* the current local calendar date
    session,        \* requests sent so far through the caller's searcher's Session
    posts,          \* POSTs issued by the current invocation
    steps,          \* the steps the current invocation has executed, in order
    response,       \* what session.post gave: a response or the exception raised
    response_data,  \* the decoded JSON body
    envelope,       \* the returned envelope
    exit_code,      \* main's return value (-1: none yet)
    shown,          \* court entries main printed
    kept,           \* an earlier invocation the caller kept, to compare with
    call,           \* the helper a caller has called directly ("none": no call)
    input,          \* that call's argument
    output          \* and what it returned

searchVars == <<pc, entry, args, date_iso, time_24h, today, session, posts, steps,
                response, response_data, envelope, exit_code, shown, kept>>

helperVars == <<call, input, output>>

vars == <<searchVars, helperVars>>

-----------------------------------------------------------------------------
(* Characters and strings *)

DigitChars == {"0", "1", "2", "3", "4", "5", "6", "7", "8", "9"}

DigitSeq == <<"0", "1", "2", "3", "4", "5", "6", "7", "8", "9">>

DigitVal(c) == (CHOOSE i \in 1..10 : DigitSeq[i] = c) - 1

DigitChar(n) == DigitSeq[n + 1]

\* s[i], or a character no pattern matches when i is past the end
At(s, i) == IF i >= 1 /\ i <= Len(s) THEN s[i] ELSE "<eos>"

Two(n) == <<DigitChar((n \div 10) % 10), DigitChar(n % 10)>>

Four(n) == <<DigitChar((n \div 1000) % 10), DigitChar((n \div 100) % 10)>> \o Two(n)

-----------------------------------------------------------------------------
(* Calendar dates: <<year, month, day>> *)

IsLeap(y) == (y % 4 = 0 /\ y % 100 # 0) \/ y % 400 = 0

DaysInMonth(y, m) ==
    IF m = 2 THEN (IF IsLeap(y) THEN 29 ELSE 28)
    ELSE IF m \in {4, 6, 9, 11} THEN 30 ELSE 31

DateLT(a, b) ==
    \/ a[1] < b[1]
    \/ a[1] = b[1] /\ a[2] < b[2]
    \/ a[1] = b[1] /\ a[2] = b[2] /\ a[3] < b[3]

\* date + timedelta(days=1)
NextDay(d) ==
    IF d[3] < DaysInMonth(d[1], d[2]) THEN <<d[1], d[2], d[3] + 1>>
    ELSE IF d[2] < 12 THEN <<d[1], d[2] + 1, 1>>
    ELSE <<d[1] + 1, 1, 1>>

\* date.strftime("%Y-%m-%d")
strftime(d) == Four(d[1]) \o <<"-">> \o Two(d[2]) \o <<"-">> \o Two(d[3])

-----------------------------------------------------------------------------
(* datetime.strptime(s, "%Y-%m-%d"): the format compiles to the regex        *)
(*   (?P<Y>\d\d\d\d)-(?P<m>1[0-2]|0[1-9]|[1-9])-                              *)
(*   (?P<d>3[01]|[12]\d|0[1-9]|[1-9]| [1-9])                                  *)
(* matched at the start of s; text left after the match, a year 0 or a day   *)
(* past the end of the month raise ValueError.                               *)

NoDate == <<0, 0, 0>>

\* length of the %m match at position i (0: no match)
MatchMonth(s, i) ==
    IF At(s, i) = "1" /\ At(s, i + 1) \in {"0", "1", "2"} THEN 2
    ELSE IF At(s, i) = "0" /\ At(s, i + 1) \in DigitChars \ {"0"} THEN 2
    ELSE IF At(s, i) \in DigitChars \ {"0"} THEN 1
    ELSE 0

\* length of the %d match at position i (0: no match)
MatchDay(s, i) ==
    IF At(s, i) = "3" /\ At(s, i + 1) \in {"0", "1"} THEN 2
    ELSE IF At(s, i) \in {"1", "2"} /\ At(s, i + 1) \in DigitChars THEN 2
    ELSE IF At(s, i) = "0" /\ At(s, i + 1) \in DigitChars \ {"0"} THEN 2
    ELSE IF At(s, i) \in DigitChars \ {"0"} THEN 1
    ELSE IF At(s, i) = " " /\ At(s, i + 1) \in DigitChars \ {"0"} THEN 2
    ELSE 0

\* the integer a matched field denotes (int() of the text, a leading space dropped)
FieldVal(s, i, n) ==
    IF n = 1 THEN DigitVal(s[i])
    ELSE IF s[i] = " " THEN DigitVal(s[i + 1])
    ELSE 10 * DigitVal(s[i]) + DigitVal(s[i + 1])

\* the parsed date, or NoDate where strptime raises ValueError
strptime(s) ==
    IF ~(\A i \in 1..4 : At(s, i) \in DigitChars) \/ At(s, 5) # "-" THEN NoDate
    ELSE LET ml == MatchMonth(s, 6) IN
         IF ml = 0 \/ At(s, 6 + ml) # "-" THEN NoDate
         ELSE LET dl == MatchDay(s, 7 + ml) IN
              IF dl = 0 \/ Len(s) # 6 + ml + dl THEN NoDate
              ELSE LET y == 1000 * DigitVal(s[1]) + 100 * DigitVal(s[2])
                              + 10 * DigitVal(s[3]) + DigitVal(s[4])
                       m == FieldVal(s, 6, ml)
                       d == FieldVal(s, 7 + ml, dl)
                   IN  IF y < 1 \/ d > DaysInMonth(y, m) THEN NoDate
                       ELSE <<y, m, d>>

validate_date(s) == strptime(s) # NoDate

-----------------------------------------------------------------------------
(* re.match(r'^([0-1]?[0-9]|2[0-3]):[0-5][0-9]$', s): in Python "$" matches  *)
(* at the end of the string and also just before a newline that ends it.     *)

\* the whole of t is ([0-1]?[0-9]|2[0-3]):[0-5][0-9]
TimeCore(t) ==
    \/ /\ Len(t) = 4
       /\ t[1] \in DigitChars
       /\ t[2] = ":" /\ t[3] \in {"0", "1", "2", "3", "4", "5"} /\ t[4] \in DigitChars
    \/ /\ Len(t) = 5
       /\ \/ t[1] \in {"0", "1"} /\ t[2] \in DigitChars
          \/ t[1] = "2" /\ t[2] \in {"0", "1", "2", "3"}
       /\ t[3] = ":" /\ t[4] \in {"0", "1", "2", "3", "4", "5"} /\ t[5] \in DigitChars

validate_time(s) ==
    \/ TimeCore(s)
    \/ Len(s) >= 1 /\ s[Len(s)] = "\n" /\ TimeCore(SubSeq(s, 1, Len(s) - 1))

-----------------------------------------------------------------------------
(* Python values decoded from JSON *)

Null == [t |-> "null"]

Bool(b) == [t |-> "bool", b |-> b]

\* a JSON number, in thousandths
Num(n) == [t |-> "num", n |-> n]

Str(s) == [t |-> "str", s |-> s]

List(l) == [t |-> "list", l |-> l]

Dict(d) == [t |-> "dict", d |-> d]

EmptyDict == Dict(<<>>)

IsDict(v) == v.t = "dict"

\* bool(v)
Truthy(v) ==
    CASE v.t = "null" -> FALSE
      [] v.t = "bool" -> v.b
      [] v.t = "num"  -> v.n # 0
      [] v.t = "str"  -> v.s # <<>>
      [] v.t = "list" -> v.l # <<>>
      [] v.t = "dict" -> DOMAIN v.d # {}

\* v.get(k, default), for a dict v
Get(v, k, default) == IF k \in DOMAIN v.d THEN v.d[k] ELSE default

UnknownCourt == Str(<<"U", "n", "k", "n", "o", "w", "n", " ", "C", "o", "u", "r", "t">>)

UnknownLocation == Str(<<"U", "n", "k", "n", "o", "w", "n", " ", "L", "o", "c", "a", "t", "i", "o", "n">>)

UnknownBorough == Str(<<"U", "n", "k", "n", "o", "w", "n", " ", "B", "o", "r", "o", "u", "g", "h">>)

Unknown == <<"U", "n", "k", "n", "o", "w", "n">>

CAD == <<"C", "A", "D">>

-----------------------------------------------------------------------------
(* f"{total_price:.2f}" *)

RECURSIVE NatDigits(_)
NatDigits(n) == IF n < 10 THEN <<DigitChar(n)>> ELSE NatDigits(n \div 10) \o <<DigitChar(n % 10)>>

\* thousandths rounded to hundredths as the float formatting rounds them: to the
\* nearest, and a tie (exact only for binary fractions) to the even hundredth
RoundCents(n) ==
    LET q == n \div 10
        r == n % 10
    IN  IF r < 5 THEN q
        ELSE IF r > 5 THEN q + 1
        ELSE IF q % 2 = 0 THEN q ELSE q + 1

\* one decimal, as f"{total_price:.1f}" would give
Format1f(n) ==
    LET c == RoundCents(IF n < 0 THEN -n ELSE n)
        sign == IF n < 0 THEN <<"-">> ELSE <<>>
    IN  sign \o NatDigits(c \div 100) \o <<".", DigitChar((c \div 10) % 10)>>

Format2f(n) ==
    LET c == RoundCents(IF n < 0 THEN -n ELSE n)
        sign == IF n < 0 THEN <<"-">> ELSE <<>>
    IN  sign \o NatDigits(c \div 100) \o <<".">> \o Two(c % 100)

\* whether f"{v:.2f}" raises (TypeError or ValueError): only numbers format
PriceRaises(v) == v.t \notin {"num", "bool"}

PriceText(v) == IF v.t = "bool" THEN Format2f(IF v.b THEN 1000 ELSE 0) ELSE Format2f(v.n)

-----------------------------------------------------------------------------
(* _parse_price: the text of a price, normalised to two decimals.            *)

\* the characters re.sub(r'[^\d,.]', '', ...) keeps
PriceChars == DigitChars \cup {",", "."}

Cleaned(s) == SelectSeq(s, LAMBDA c : c \in PriceChars)

Occurs(s, c) == \E i \in DOMAIN s : s[i] = c

\* cleaned.replace(',', '.'), done only when there is a comma and no dot
CommaToDot(s) ==
    IF Occurs(s, ",") /\ ~Occurs(s, ".")
    THEN [i \in DOMAIN s |-> IF s[i] = "," THEN "." ELSE s[i]]
    ELSE s

\* whether float(s) raises ValueError, for s of digits, commas and dots: the
\* text must be digits with at most one dot and at least one digit
FloatRaises(s) ==
    \/ Occurs(s, ",")
    \/ Cardinality({i \in DOMAIN s : s[i] = "."}) > 1
    \/ \A i \in DOMAIN s : s[i] \notin DigitChars

\* where the fraction starts: the position of the dot, or one past the end
DotAt(s) == IF Occurs(s, ".") THEN CHOOSE i \in DOMAIN s : s[i] = "." ELSE Len(s) + 1

RECURSIVE StripZeros(_)
StripZeros(s) == IF s # <<>> /\ Head(s) = "0" THEN StripZeros(Tail(s)) ELSE s

RECURSIVE DigitsVal(_)
DigitsVal(s) == IF s = <<>> THEN 0 ELSE 10 * DigitsVal(SubSeq(s, 1, Len(s) - 1)) + DigitVal(s[Len(s)])

\* sys.float_info.max_10_exp: every number of more than max_10_exp + 1 integer
\* digits is beyond the largest float, and float() gives inf for it
max_10_exp == 308

FloatIsInf(s) == Len(StripZeros(SubSeq(s, 1, DotAt(s) - 1))) > max_10_exp + 1

Inf == <<"i", "n", "f">>

\* f"{float(s):.2f}" for a finite float(s): the third decimal decides the
\* rounding, and on a 5 any later non-zero digit rounds up
FloatText(s) ==
    LET d == DotAt(s)
        f(i) == IF d + i <= Len(s) THEN DigitVal(s[d + i]) ELSE 0
        more == \E i \in (d + 4)..Len(s) : s[i] # "0"
        thousandths == 1000 * DigitsVal(SubSeq(s, 1, d - 1)) + 100 * f(1) + 10 * f(2) + f(3)
    IN  Format2f(IF f(3) = 5 /\ more THEN thousandths + 1 ELSE thousandths)

ZeroPrice == <<"0", ".", "0", "0">>

parse_price(price_str) ==
    IF ~Truthy(price_str) THEN ZeroPrice
    ELSE LET cleaned == CommaToDot(Cleaned(price_str.s))
         IN  IF FloatRaises(cleaned) THEN ZeroPrice
             ELSE IF FloatIsInf(cleaned) THEN Inf
             ELSE FloatText(cleaned)

-----------------------------------------------------------------------------
(* _parse_time_range: "HH:MM - HH:MM" split into (start, end).               *)

Separator == <<" ", "-", " ">>

\* whether the separator starts at position i of s
SepAt(s, i) == i + 2 <= Len(s) /\ SubSeq(s, i, i + 2) = Separator

\* s.split(' - ', 1): cut at the first separator only
SplitOnce(s) ==
    IF \E i \in DOMAIN s : SepAt(s, i)
    THEN LET i == CHOOSE k \in DOMAIN s : SepAt(s, k) /\ \A j \in 1..(k - 1) : ~SepAt(s, j)
         IN  <<SubSeq(s, 1, i - 1), SubSeq(s, i + 3, Len(s))>>
    ELSE <<s>>

\* s.split(' - '): cut at every separator, found from the left, a character
\* belonging to one separator only
RECURSIVE Split(_)
Split(s) ==
    IF \E i \in DOMAIN s : SepAt(s, i)
    THEN LET i == CHOOSE k \in DOMAIN s : SepAt(s, k) /\ \A j \in 1..(k - 1) : ~SepAt(s, j)
         IN  <<SubSeq(s, 1, i - 1)>> \o Split(SubSeq(s, i + 3, Len(s)))
    ELSE <<s>>

\* the whitespace str.strip() removes, as far as the inputs hold any
Whitespace == {" ", "\t", "\n", "\r"}

RECURSIVE LStrip(_)
LStrip(s) == IF s # <<>> /\ Head(s) \in Whitespace THEN LStrip(Tail(s)) ELSE s

RECURSIVE RStrip(_)
RStrip(s) == IF s # <<>> /\ s[Len(s)] \in Whitespace THEN RStrip(SubSeq(s, 1, Len(s) - 1)) ELSE s

Strip(s) == LStrip(RStrip(s))

NoRange == List(<<Null, Null>>)

\* start_time, end_time = parts raises ValueError unless there are two parts
UnpackRaises(parts) == Len(parts) # 2

parse_time_range(time_str) ==
    IF ~Truthy(time_str) \/ ~(\E i \in DOMAIN time_str.s : SepAt(time_str.s, i)) THEN NoRange
    ELSE LET parts == Split(time_str.s)
         IN  IF UnpackRaises(parts) THEN NoRange
             ELSE List(<<Str(Strip(parts[1])), Str(Strip(parts[2]))>>)

-----------------------------------------------------------------------------
(* datetime.fromisoformat(s.replace('Z', '+00:00')), then                    *)
(* dt.replace(tzinfo=None) - timedelta(hours=4), then strftime('%H:%M').     *)
(* fromisoformat is modelled on the layouts every supported Python accepts:  *)
(* YYYY-MM-DD, optionally one separator character and HH[:MM[:SS[.fff[fff]]]]*)
(* and an offset [+-]HH:MM.                                                  *)

RECURSIVE ReplaceZ(_)
ReplaceZ(s) ==
    IF s = <<>> THEN <<>>
    ELSE (IF Head(s) = "Z" THEN <<"+", "0", "0", ":", "0", "0">> ELSE <<Head(s)>>)
         \o ReplaceZ(Tail(s))

\* the two-digit number at s[i], s[i+1], or -1
Num2(s, i) ==
    IF At(s, i) \in DigitChars /\ At(s, i + 1) \in DigitChars
    THEN 10 * DigitVal(s[i]) + DigitVal(s[i + 1]) ELSE -1

\* s from position i on is HH, HH:MM, HH:MM:SS, HH:MM:SS.fff or HH:MM:SS.ffffff, n long
IsoTimeOK(s, i, n) ==
    /\ Num2(s, i) \in 0..23
    /\ n >= 5 => At(s, i + 2) = ":" /\ Num2(s, i + 3) \in 0..59
    /\ n >= 8 => At(s, i + 5) = ":" /\ Num2(s, i + 6) \in 0..59
    /\ n >= 12 => At(s, i + 8) = "." /\ \A k \in (i + 9)..(i + n - 1) : At(s, k) \in DigitChars

\* s from position i on is empty or an offset [+-]HH:MM
IsoOffsetOK(s, i) ==
    \/ Len(s) = i - 1
    \/ /\ Len(s) = i + 5
       /\ s[i] \in {"+", "-"}
       /\ Num2(s, i + 1) \in 0..23 /\ s[i + 3] = ":" /\ Num2(s, i + 4) \in 0..59

NoDateTime == <<0, 0, 0, 0, 0>>

\* <<year, month, day, hour, minute>>, or NoDateTime where fromisoformat raises
fromisoformat(s) ==
    IF ~(/\ \A i \in {1, 2, 3, 4, 6, 7, 9, 10} : At(s, i) \in DigitChars
         /\ At(s, 5) = "-" /\ At(s, 8) = "-") THEN NoDateTime
    ELSE LET y == 100 * Num2(s, 1) + Num2(s, 3)
             m == Num2(s, 6)
             d == Num2(s, 9)
             lens == {n \in {2, 5, 8, 12, 15} : IsoTimeOK(s, 12, n) /\ IsoOffsetOK(s, 12 + n)}
         IN  IF y < 1 \/ m \notin 1..12 \/ d < 1 \/ d > DaysInMonth(y, m) THEN NoDateTime
             ELSE IF Len(s) = 10 THEN <<y, m, d, 0, 0>>
             ELSE IF lens = {} THEN NoDateTime
             ELSE LET n == CHOOSE k \in lens : TRUE
                  IN  <<y, m, d, Num2(s, 12), IF n >= 5 THEN Num2(s, 15) ELSE 0>>

\* the conversion with the winter offset, UTC-5
LocalTimeWinter(v) ==
    IF ~Truthy(v) THEN Unknown
    ELSE IF v.t # "str" THEN Unknown
    ELSE LET dt == fromisoformat(ReplaceZ(v.s)) IN
         IF dt = NoDateTime THEN Unknown
         ELSE IF <<dt[1], dt[2], dt[3]>> = <<1, 1, 1>> /\ dt[4] < 5
              THEN Unknown
         ELSE Two((dt[4] + 19) % 24) \o <<":">> \o Two(dt[5])

\* start_time / end_time of a record, from item.get('startDateTime', '')
LocalTime(v) ==
    IF ~Truthy(v) THEN Unknown
    ELSE IF v.t # "str" THEN Unknown                      \* no .replace: caught
    ELSE LET dt == fromisoformat(ReplaceZ(v.s)) IN
         IF dt = NoDateTime THEN Unknown                  \* ValueError: caught
         ELSE IF <<dt[1], dt[2], dt[3]>> = <<1, 1, 1>> /\ dt[4] < 4
              THEN Unknown                                \* OverflowError: caught
         ELSE Two((dt[4] + 20) % 24) \o <<":">> \o Two(dt[5])

-----------------------------------------------------------------------------
(* _parse_api_response *)

\* whether the loop body raises on this item
ItemRaises(item) ==
    \/ ~IsDict(item)
    \/ LET facility == Get(item, "facility", EmptyDict) IN
       \/ ~IsDict(facility)
       \/ LET site == Get(facility, "site", EmptyDict) IN
          \/ ~IsDict(site)
          \/ LET boroughs == Get(site, "boroughs", List(<<>>)) IN
             Truthy(boroughs) /\ ~(boroughs.t = "list" /\ IsDict(boroughs.l[1]))
    \/ PriceRaises(Get(item, "totalPrice", Num(0)))

\* item.get('facilityScheduleId', item.get('facilityPricingId', None))
ReservationId(item) ==
    Get(item, "facilityScheduleId", Get(item, "facilityPricingId", Null))

CanReserve(item) ==
    LET obj == Get(item, "canReserve", EmptyDict)
    IN  IF IsDict(obj) THEN Get(obj, "value", Bool(TRUE)) ELSE Bool(Truthy(obj))

\* the court_info record of an item the loop body does not raise on
CourtInfo(item, date) ==
    LET facility == Get(item, "facility", EmptyDict)
        site == Get(facility, "site", EmptyDict)
        boroughs == Get(site, "boroughs", List(<<>>))
    IN  [name |-> Get(facility, "name", UnknownCourt),
         location |-> Get(site, "name", UnknownLocation),
         borough |-> IF Truthy(boroughs) THEN Get(boroughs.l[1], "name", UnknownBorough)
                     ELSE UnknownBorough,
         date |-> date,
         start_time |-> LocalTime(Get(item, "startDateTime", Str(<<>>))),
         end_time |-> LocalTime(Get(item, "endDateTime", Str(<<>>))),
         price |-> PriceText(Get(item, "totalPrice", Num(0))),
         currency |-> CAD,
         can_reserve |-> CanReserve(item),
         reservation_id |-> ReservationId(item)]

\* the for loop from item i on: an exception leaves the loop with the records
\* appended so far
RECURSIVE ParseItems(_, _, _, _)
ParseItems(items, i, date, courts) ==
    IF i > Len(items) THEN courts
    ELSE IF ItemRaises(items[i]) THEN courts
    ELSE ParseItems(items, i + 1, date, Append(courts, CourtInfo(items[i], date)))

parse_api_response(data, date) ==
    IF ~IsDict(data) THEN <<>>
    ELSE LET results == Get(data, "results", List(<<>>))
         IN  IF results.t = "list" THEN ParseItems(results.l, 1, date, <<>>)
             ELSE <<>>

-----------------------------------------------------------------------------
(* The result envelope *)

REQUEST_TIMEOUT == 30

DEFAULT_BOROUGHS == <<"9", ",", "2", ",", "1", "9", ",", "1", ",", "8">>

\* an f-string message: its text with {} for the interpolated value
Msg(fmt, arg) == [fmt |-> fmt, arg |-> arg]

SearchParams == [date |-> date_iso, time |-> time_24h, boroughs |-> DEFAULT_BOROUGHS]

NoEnvelope == [status |-> "none"]

ErrorEnvelope(type, msg) ==
    [search_params |-> SearchParams,
     results |-> <<>>,
     total_found |-> 0,
     status |-> "error",
     message |-> msg,
     error_type |-> type]

\* f"{seconds:.1f}s", the elapsed time given in tenths of a second
ResponseTime(tenths) == NatDigits(tenths \div 10) \o <<".", DigitChar(tenths % 10), "s">>

\* a success envelope whose message reports the elapsed time too
SuccessEnvelopeTimed(found, tenths) ==
    [search_params |-> SearchParams,
     results |-> found,
     total_found |-> Len(found),
     status |-> "success",
     message |-> Msg("Found {} available courts", NatDigits(Len(found)) \o ResponseTime(tenths)),
     api_response_time |-> ResponseTime(tenths)]

SuccessEnvelope(found, tenths) ==
    IF found # <<>>
    THEN [search_params |-> SearchParams,
          results |-> found,
          total_found |-> Len(found),
          status |-> "success",
          message |-> Msg("Found {} available courts", NatDigits(Len(found))),
          api_response_time |-> ResponseTime(tenths)]
    ELSE [search_params |-> SearchParams,
          results |-> <<>>,
          total_found |-> 0,
          status |-> "success",
          message |-> Msg("No available courts found for the specified date and time", <<>>),
          api_response_time |-> ResponseTime(tenths)]

\* a handler that forgets the error_type key
TransportErrorUntyped(kind) ==
    [search_params |-> SearchParams,
     results |-> <<>>,
     total_found |-> 0,
     status |-> "error",
     message |-> Msg("Request failed", <<>>)]

\* the handlers of the try block, by what session.post raised
TransportError(kind) ==
    CASE kind = "timeout" ->
           ErrorEnvelope("network_error",
                         Msg("Request timeout after {} seconds", NatDigits(REQUEST_TIMEOUT)))
      [] kind = "connection" ->
           ErrorEnvelope("network_error",
                         Msg("Network connection error. Please check your internet connection.", <<>>))
      [] OTHER ->
           ErrorEnvelope("api_error", Msg("Unexpected error: {}", <<"e">>))

\* a status check that lets client errors through
RaisesForServerError(status) == status >= 500 /\ status < 600

\* response.raise_for_status(): HTTPError for a 4xx or 5xx status
RaisesForStatus(status) == status >= 400 /\ status < 600

\* e.response is a Response whose truth value is response.ok, false for every
\* status raise_for_status raises on: the message says "Unknown"
HTTPErrorEnvelope(status) ==
    ErrorEnvelope("api_error",
                  Msg("API request failed with status {}",
                      IF RaisesForStatus(status) THEN Unknown ELSE NatDigits(status)))

\* the number of byte-order marks left after response_text[1:] when the text
\* starts with one
StripBom(boms) == IF boms >= 1 THEN boms - 1 ELSE boms

\* json.loads raises JSONDecodeError on a text that is not JSON, a leading
\* byte-order mark included
LoadsRaises(boms, json) == boms >= 1 \/ ~json.valid

-----------------------------------------------------------------------------
(* Inputs: the arguments callers pass, the clock, and what the backend does *)

MaxItems == 2

MaxSession == 2

DateArgs ==
    {<<"2", "0", "2", "5", "-", "0", "6", "-", "2", "0">>,
     <<"2", "0", "2", "5", "-", "0", "6", "-", "2", "1">>,
     <<"2", "0", "2", "5", "-", "0", "6", "-", "1", "9">>,
     <<"2", "0", "2", "8", "-", "0", "2", "-", "2", "9">>,
     <<"2", "0", "2", "5", "/", "0", "6", "/", "2", "0">>,
     <<"2", "0", "2", "5", "-", "0", "2", "-", "3", "0">>,
     <<"2", "0", "2", "5", "-", "6", "-", "2", "1">>,
     <<"2", "0", "2", "5", "-", "0", "7", "-", " ", "1">>,
     <<"2", "0", "2", "5", "0", "6", "2", "1">>,
     <<>>,
     <<"t", "o", "d", "a", "y">>,
     <<"T", "o", "m", "o", "r", "r", "o", "w">>}

TimeArgs ==
    {<<"1", "7", ":", "0", "0">>,
     <<"7", ":", "0", "0">>,
     <<"2", "3", ":", "5", "9">>,
     <<"1", "7", ":", "0", "0", "\n">>,
     <<"2", "5", ":", "0", "0">>,
     <<"1", "7", ":", "6", "0">>,
     <<"5", "p", "m">>,
     <<>>}

Todays == {<<2025, 6, 20>>, <<2025, 6, 30>>}

NoArgs == [json |-> FALSE, limit |-> 0]

\* --json and --limit (0: not given)
MainArgs == [json : BOOLEAN, limit : {0, 1}]

\* elapsed wall-clock time, in tenths of a second
Elapsed == {3, 12}

ItemFull ==
    Dict([facility |-> Dict([name |-> Str(<<"A">>),
                             site |-> Dict([name |-> Str(<<"P">>),
                                            boroughs |-> List(<<Dict([name |-> Str(<<"V">>)])>>)])]),
          startDateTime |-> Str(<<"2", "0", "2", "5", "-", "0", "6", "-", "2", "0", "T", "2", "1", ":", "0", "0", ":", "0", "0", "Z">>),
          endDateTime |-> Str(<<"2", "0", "2", "5", "-", "0", "6", "-", "2", "1", "T", "0", "2", ":", "3", "0", ":", "0", "0", ".", "0", "0", "0", "Z">>),
          totalPrice |-> Num(8100),
          canReserve |-> Dict([value |-> Bool(TRUE)]),
          facilityScheduleId |-> Num(7000),
          facilityPricingId |-> Num(5000)])

ItemBare == EmptyDict

ItemNullSchedule ==
    Dict([facility |-> Dict([site |-> Dict([boroughs |-> List(<<>>)])]),
          startDateTime |-> Str(<<"s", "o", "o", "n">>),
          totalPrice |-> Num(12375),
          canReserve |-> Bool(FALSE),
          facilityScheduleId |-> Null,
          facilityPricingId |-> Num(9000)])

ItemNotObject == Str(<<"x">>)

ItemBadPrice ==
    Dict([facility |-> Dict([name |-> Str(<<"B">>)]),
          totalPrice |-> Str(<<"8", ",", "1", "0", " ", "$">>)])

Items == {ItemFull, ItemBare, ItemNullSchedule, ItemNotObject, ItemBadPrice}

RECURSIVE SeqsUpTo(_, _)
SeqsUpTo(S, n) ==
    IF n = 0 THEN {<<>>}
    ELSE LET shorter == SeqsUpTo(S, n - 1)
         IN  shorter \cup {Append(s, x) : s \in shorter, x \in S}

Json(value) == [valid |-> TRUE, value |-> value]

NotJson == [valid |-> FALSE, value |-> Null]

\* response bodies: not JSON, JSON that is no object, objects without a results
\* list, and objects with up to MaxItems items
Bodies ==
    {NotJson, Json(Null), Json(List(<<>>)), Json(EmptyDict), Json(Dict([results |-> Null]))}
    \cup {Json(Dict([results |-> List(l)])) : l \in SeqsUpTo(Items, MaxItems)}

Response(status, boms, json) ==
    [kind |-> "response", status |-> status, boms |-> boms, json |-> json]

Raised(kind) == [kind |-> kind]

NoResponse == Raised("none")

OneItemBody == Json(Dict([results |-> List(<<ItemFull>>)]))

\* what session.post does: raises Timeout, ConnectionError or another exception,
\* or returns a response (a status, a body with 0..2 leading byte-order marks)
Backends ==
    {Raised("timeout"), Raised("connection"), Raised("other")}
    \cup {Response(200, b, j) : b \in {0, 1, 2}, j \in Bodies}
    \cup {Response(s, 0, j) : s \in {204, 304, 404, 503}, j \in {NotJson, OneItemBody}}

-----------------------------------------------------------------------------
(* main: the date keywords *)

UpperSeq == <<"A", "B", "C", "D", "E", "F", "G", "H", "I", "J", "K", "L", "M", "N", "O", "P", "Q", "R", "S", "T", "U", "V", "W", "X", "Y", "Z">>

LowerSeq == <<"a", "b", "c", "d", "e", "f", "g", "h", "i", "j", "k", "l", "m", "n", "o", "p", "q", "r", "s", "t", "u", "v", "w", "x", "y", "z">>

\* str.lower()
Lower(s) ==
    [i \in 1..Len(s) |->
        IF \E k \in 1..26 : UpperSeq[k] = s[i]
        THEN LowerSeq[CHOOSE k \in 1..26 : UpperSeq[k] = s[i]]
        ELSE s[i]]

\* search_date in main
MainDate(arg, now) ==
    IF Lower(arg) = <<"t", "o", "d", "a", "y">> THEN strftime(now)
    ELSE IF Lower(arg) = <<"t", "o", "m", "o", "r", "r", "o", "w">> THEN strftime(NextDay(now))
    ELSE arg

\* courts[:args.limit] if args.limit, else courts
Limited(found, limit) ==
    IF limit # 0 THEN SubSeq(found, 1, IF limit < Len(found) THEN limit ELSE Len(found))
    ELSE found

\* main's return value
ExitCode(json, status) ==
    IF json THEN 0
    ELSE IF status = "success" THEN 0
    ELSE 1

-----------------------------------------------------------------------------
(* The state machine *)

NoKept == [envelope |-> NoEnvelope]

Finished == pc = "exited" \/ (pc = "returned" /\ entry # "main")

\* a comparison that also rejects today
IsPastOrToday(date, now) == DateLT(date, now) \/ date = now

\* search_date < datetime.now().date()
IsPast(date, now) == DateLT(date, now)

Init ==
    /\ pc = "idle"
    /\ entry = "function"
    /\ args = NoArgs
    /\ date_iso = <<>>
    /\ time_24h = <<>>
    /\ today \in Todays
    /\ session = 0
    /\ posts = 0
    /\ steps = <<>>
    /\ response = NoResponse
    /\ response_data = Null
    /\ envelope = NoEnvelope
    /\ exit_code = -1
    /\ shown = 0
    /\ kept = NoKept
    /\ call = "none"
    /\ input = Null
    /\ output = Null

\* a caller starts an invocation: main() with its arguments, the convenience
\* function (a new searcher each time) or the method on the caller's searcher
InvokeFrom(entries, dates, times) ==
    /\ pc = "idle"
    /\ UNCHANGED helperVars
    /\ \E e \in entries, d \in dates, tm \in times, now \in Todays :
         \E a \in (IF e = "main" THEN MainArgs ELSE {NoArgs}) :
            /\ e = "method" => session < MaxSession
            /\ entry' = e
            /\ args' = a
            /\ today' = now
            /\ date_iso' = IF e = "main" THEN MainDate(d, now) ELSE d
            /\ time_24h' = tm
    /\ pc' = "validate_date"
    /\ UNCHANGED <<session, posts, steps, response, response_data, envelope,
                   exit_code, shown, kept>>

\* the invocation is over and its locals are gone; the caller keeps its
\* result (keeps: TRUE) or goes on with what it had kept before
FinishWith(keeps) ==
    /\ Finished
    /\ UNCHANGED helperVars
    /\ \E k \in keeps :
         kept' = IF k THEN [date |-> date_iso, time |-> time_24h, today |-> today,
                            response |-> response, envelope |-> envelope]
                 ELSE kept
    /\ pc' = "idle"
    /\ entry' = "function"
    /\ args' = NoArgs
    /\ date_iso' = <<>>
    /\ time_24h' = <<>>
    /\ posts' = 0
    /\ steps' = <<>>
    /\ response' = NoResponse
    /\ response_data' = Null
    /\ envelope' = NoEnvelope
    /\ exit_code' = -1
    /\ shown' = 0
    /\ UNCHANGED <<today, session>>

Return(env) ==
    /\ envelope' = env
    /\ pc' = "returned"

ValidateDate ==
    /\ pc = "validate_date"
    /\ UNCHANGED helperVars
    /\ steps' = Append(steps, "validate_date")
    /\ IF ~validate_date(date_iso)
       THEN Return(ErrorEnvelope("invalid_input",
                       Msg("Invalid date format: {}. Expected YYYY-MM-DD", date_iso)))
       ELSE pc' = "validate_time" /\ UNCHANGED envelope
    /\ UNCHANGED <<entry, args, date_iso, time_24h, today, session, posts,
                   response, response_data, exit_code, shown, kept>>

ValidateTime ==
    /\ pc = "validate_time"
    /\ UNCHANGED helperVars
    /\ steps' = Append(steps, "validate_time")
    /\ IF ~validate_time(time_24h)
       THEN Return(ErrorEnvelope("invalid_input",
                       Msg("Invalid time format: {}. Expected HH:MM", time_24h)))
       ELSE pc' = "check_past" /\ UNCHANGED envelope
    /\ UNCHANGED <<entry, args, date_iso, time_24h, today, session, posts,
                   response, response_data, exit_code, shown, kept>>

CheckPast ==
    /\ pc = "check_past"
    /\ UNCHANGED helperVars
    /\ steps' = Append(steps, "check_past")
    /\ IF IsPast(strptime(date_iso), today)
       THEN Return(ErrorEnvelope("invalid_input",
                       Msg("Cannot search for past dates: {}", date_iso)))
       ELSE pc' = "post" /\ UNCHANGED envelope
    /\ UNCHANGED <<entry, args, date_iso, time_24h, today, session, posts,
                   response, response_data, exit_code, shown, kept>>

\* self.session.post(...): one request; an exception goes to its handler
PostFrom(backends) ==
    /\ pc = "post"
    /\ UNCHANGED helperVars
    /\ steps' = Append(steps, "post")
    /\ posts' = posts + 1
    /\ session' = IF entry = "method" THEN session + 1 ELSE session
    /\ \E b \in backends :
         /\ response' = b
         /\ IF b.kind = "response"
            THEN pc' = "decode" /\ UNCHANGED envelope
            ELSE Return(TransportError(b.kind))
    /\ UNCHANGED <<entry, args, date_iso, time_24h, today,
                   response_data, exit_code, shown, kept>>

\* raise_for_status, the byte-order mark, json.loads
Decode ==
    /\ pc = "decode"
    /\ UNCHANGED helperVars
    /\ steps' = Append(steps, "decode")
    /\ IF RaisesForStatus(response.status)
       THEN Return(HTTPErrorEnvelope(response.status)) /\ UNCHANGED response_data
       ELSE IF LoadsRaises(StripBom(response.boms), response.json)
       THEN Return(ErrorEnvelope("api_error", Msg("Invalid API response format", <<>>)))
            /\ UNCHANGED response_data
       ELSE /\ response_data' = response.json.value
            /\ pc' = "parse"
            /\ UNCHANGED envelope
    /\ UNCHANGED <<entry, args, date_iso, time_24h, today, session, posts,
                   response, exit_code, shown, kept>>

\* _parse_api_response and the success envelope
Parse ==
    /\ pc = "parse"
    /\ UNCHANGED helperVars
    /\ steps' = Append(steps, "parse")
    /\ \E tenths \in Elapsed :
         Return(SuccessEnvelope(parse_api_response(response_data, date_iso), tenths))
    /\ UNCHANGED <<entry, args, date_iso, time_24h, today, session, posts,
                   response, response_data, exit_code, shown, kept>>

\* main prints the envelope and returns its exit code
MainExit ==
    /\ pc = "returned"
    /\ UNCHANGED helperVars
    /\ entry = "main"
    /\ exit_code' = ExitCode(args.json, envelope.status)
    /\ shown' = IF ~args.json /\ envelope.status = "success"
                THEN Len(Limited(envelope.results, args.limit)) ELSE 0
    /\ pc' = "exited"
    /\ UNCHANGED <<entry, args, date_iso, time_24h, today, session, posts, steps,
                   response, response_data, envelope, kept>>

Invoke == InvokeFrom({"main", "function"}, DateArgs, TimeArgs)

\* a POST that is sent again after a transport failure
PostRetrying ==
    /\ pc = "post"
    /\ UNCHANGED helperVars
    /\ steps' = Append(steps, "post")
    /\ posts' = posts + 1
    /\ session' = IF entry = "method" THEN session + 1 ELSE session
    /\ \E b \in Backends :
         /\ response' = b
         /\ IF b.kind = "response"
            THEN pc' = "decode" /\ UNCHANGED envelope
            ELSE IF posts = 0
            THEN pc' = "post" /\ UNCHANGED envelope
            ELSE Return(TransportError(b.kind))
    /\ UNCHANGED <<entry, args, date_iso, time_24h, today,
                   response_data, exit_code, shown, kept>>

Finish == FinishWith({FALSE})

Post == PostFrom(Backends)

\* the searches of a caller that keeps results and compares them: the
\* convenience function and the method on the caller's own searcher
RepeatDates ==
    {<<"2", "0", "2", "5", "-", "0", "6", "-", "2", "1">>,
     <<"2", "0", "2", "5", "-", "0", "6", "-", "1", "9">>,
     <<"2", "0", "2", "5", "/", "0", "6", "/", "2", "0">>}

RepeatTimes == {<<"1", "7", ":", "0", "0">>, <<"2", "5", ":", "0", "0">>}

RepeatBackends ==
    {Raised("timeout"),
     Response(404, 0, NotJson),
     Response(200, 0, Json(EmptyDict)),
     Response(200, 1, OneItemBody),
     Response(200, 0, Json(Dict([results |-> List(<<ItemBare, ItemNotObject>>)])))}

InvokeRepeat == InvokeFrom({"function", "method"}, RepeatDates, RepeatTimes)

PostRepeat == PostFrom(RepeatBackends)

FinishRepeat == FinishWith(BOOLEAN)

NextRepeat ==
    \/ InvokeRepeat
    \/ ValidateDate
    \/ ValidateTime
    \/ CheckPast
    \/ PostRepeat
    \/ Decode
    \/ Parse
    \/ FinishRepeat

SpecRepeat == Init /\ [][NextRepeat]_vars

Next ==
    \/ Invoke
    \/ ValidateDate
    \/ ValidateTime
    \/ CheckPast
    \/ Post
    \/ Decode
    \/ Parse
    \/ MainExit
    \/ Finish

Spec == Init /\ [][Next]_vars

-----------------------------------------------------------------------------
(* The helpers called on their own, as test_example.py calls them.           *)

MaxPriceLen == 4

PriceAlphabet == {"0", "1", "8", ",", ".", "$"}

\* the prices of test_price_parsing
TestPrices ==
    { <<"8", ",", "1", "0", " ", "$">>,
      <<"8", ".", "1", "0">>,
      <<"1", "0", ",", "5", "0", " ", "C", "A", "D">>,
      <<"1", "5", ".", "7", "5", " ", "$">>,
      <<"F", "r", "e", "e">>,
      <<"1", "2", ",", "0", "0">> }

\* a price of more integer digits than any float has
HugePrice == [i \in 1..(max_10_exp + 2) |-> "9"]

PriceArgs ==
    {Null} \cup {Str(s) : s \in SeqsUpTo(PriceAlphabet, MaxPriceLen) \cup TestPrices \cup {HugePrice}}

MaxRangeLen == 6

RangeAlphabet == {"a", " ", "-"}

\* the ranges of test_time_range_parsing, and ranges with other whitespace and
\* with two separators
TestRanges ==
    { <<"1", "7", ":", "0", "0", " ", "-", " ", "1", "8", ":", "0", "0">>,
      <<"0", "9", ":", "3", "0", " ", "-", " ", "1", "0", ":", "3", "0">>,
      <<"1", "7", ":", "0", "0">>,
      <<"I", "n", "v", "a", "l", "i", "d", " ", "r", "a", "n", "g", "e">>,
      <<"\t", "a", " ", "-", " ", "b", "\n">>,
      <<"a", " ", "-", " ", "b", " ", "-", " ", "c">> }

RangeArgs ==
    {Null} \cup {Str(s) : s \in SeqsUpTo(RangeAlphabet, MaxRangeLen) \cup TestRanges}

\* a key the item does not have
Absent == [t |-> "absent"]

StampDates == {<<2025, 6, 20>>, <<1, 1, 1>>}

StampHours == {0, 3, 4, 12, 23}

StampMinutes == {0, 59}

\* the timestamp of the API: YYYY-MM-DDTHH:MM:SSZ
Stamp(d, h, m) ==
    Four(d[1]) \o <<"-">> \o Two(d[2]) \o <<"-">> \o Two(d[3]) \o <<"T">>
    \o Two(h) \o <<":">> \o Two(m) \o <<":", "0", "0", "Z">>

\* what an item may hold as startDateTime or endDateTime: a timestamp, one
\* with milliseconds, nothing, null, an empty text, texts that are no
\* timestamp (a word, month 13, hour 25), a number
StampArgs ==
    {Str(Stamp(d, h, m)) : d \in StampDates, h \in StampHours, m \in StampMinutes}
    \cup { ItemFull.d["endDateTime"], Absent, Null, Str(<<>>), Num(5000),
           ItemNullSchedule.d["startDateTime"],
           Str(<<"2", "0", "2", "5", "-", "1", "3", "-", "0", "1", "T", "1", "0", ":", "0", "0", ":", "0", "0", "Z">>),
           Str(<<"2", "0", "2", "5", "-", "0", "6", "-", "2", "0", "T", "2", "5", ":", "0", "0", ":", "0", "0", "Z">>) }

\* an item with these two timestamps
TimedItem(start, end) ==
    Dict((IF start = Absent THEN <<>> ELSE [startDateTime |-> start])
         @@ (IF end = Absent THEN <<>> ELSE [endDateTime |-> end])
         @@ [facility |-> Dict([name |-> Str(<<"C">>)]), totalPrice |-> Num(10500)])

\* the items after it in the results list
Followers == {<<>>, <<ItemFull>>, <<ItemNullSchedule>>}

HelperDate == <<"2", "0", "2", "5", "-", "0", "6", "-", "2", "0">>

CallParseResponse ==
    /\ call = "none"
    /\ \E start \in StampArgs, end \in StampArgs, rest \in Followers :
        /\ input' = Dict([results |-> List(<<TimedItem(start, end)>> \o rest)])
        /\ output' = List(parse_api_response(input', HelperDate))
    /\ call' = "parse_api_response"
    /\ UNCHANGED searchVars

CallParsePrice ==
    /\ call = "none"
    /\ \E p \in PriceArgs :
        /\ input' = p
        /\ output' = Str(parse_price(p))
    /\ call' = "parse_price"
    /\ UNCHANGED searchVars

CallParseTimeRange ==
    /\ call = "none"
    /\ \E r \in RangeArgs :
        /\ input' = r
        /\ output' = parse_time_range(r)
    /\ call' = "parse_time_range"
    /\ UNCHANGED searchVars

HelperReturn ==
    /\ call # "none"
    /\ call' = "none"
    /\ input' = Null
    /\ output' = Null
    /\ UNCHANGED searchVars

NextHelpers ==
    \/ CallParsePrice
    \/ CallParseTimeRange
    \/ CallParseResponse
    \/ HelperReturn

SpecHelpers == Init /\ [][NextHelpers]_vars

-----------------------------------------------------------------------------
(* Properties *)

\* the invocation has returned its envelope
Returned == pc \in {"returned", "exited"}

HasErrorType(e) == "error_type" \in DOMAIN e

IsError(e, type) ==
    /\ e.status = "error"
    /\ HasErrorType(e) /\ e.error_type = type
    /\ e.results = <<>>
    /\ e.total_found = 0

IsPrefix(s, u) == Len(s) <= Len(u) /\ \A i \in 1..Len(s) : s[i] = u[i]

StepOrder == <<"validate_date", "validate_time", "check_past", "post", "decode", "parse">>

\* s is exactly YYYY-MM-DD and a real calendar date
StrictYMD(s) ==
    /\ Len(s) = 10
    /\ \A i \in {1, 2, 3, 4, 6, 7, 9, 10} : s[i] \in DigitChars
    /\ s[5] = "-" /\ s[8] = "-"
    /\ 100 * Num2(s, 1) + Num2(s, 3) >= 1
    /\ Num2(s, 6) \in 1..12
    /\ Num2(s, 9) >= 1
    /\ Num2(s, 9) <= DaysInMonth(100 * Num2(s, 1) + Num2(s, 3), Num2(s, 6))

\* the date a strict YYYY-MM-DD string denotes
DateOf(s) == <<100 * Num2(s, 1) + Num2(s, 3), Num2(s, 6), Num2(s, 9)>>

\* the whole of s is H:MM or HH:MM, hour 0-23, minute 00-59
StrictTime(s) ==
    \/ Len(s) = 4 /\ s[1] \in DigitChars /\ s[2] = ":" /\ Num2(s, 3) \in 0..59
    \/ Len(s) = 5 /\ Num2(s, 1) \in 0..23 /\ s[3] = ":" /\ Num2(s, 4) \in 0..59

\* the date check ran and let the invocation go on
DatePassed == Len(steps) >= 2 \/ (steps = <<"validate_date">> /\ pc = "validate_time")

\* the time check ran and let the invocation go on
TimePassed == Len(steps) >= 3 \/ (Len(steps) = 2 /\ pc = "check_past")

(* C1, as stated: in every returned envelope, status = "error" iff error_type *)
(* is present iff results is empty.                                          *)
C1_Original ==
    Returned =>
        /\ (envelope.status = "error") <=> HasErrorType(envelope)
        /\ HasErrorType(envelope) <=> (envelope.results = <<>>)

(* C1, amended: in every returned envelope, status = "error" iff error_type  *)
(* is present, and an error envelope has empty results and total_found 0; a  *)
(* success envelope may have empty results too.                              *)
C1_Envelope ==
    Returned =>
        /\ envelope.status \in {"error", "success"}
        /\ (envelope.status = "error") <=> HasErrorType(envelope)
        /\ envelope.status = "error" => envelope.results = <<>> /\ envelope.total_found = 0
        /\ envelope.results # <<>> => envelope.status = "success"

C1_Witness ==
    /\ Returned
    /\ envelope.status = "success"
    /\ envelope.results = <<>>
    /\ ~HasErrorType(envelope)

(* C2: the steps of an invocation run in the order date check, time check,   *)
(* past-date check, POST; the first failing check returns an invalid_input   *)
(* envelope whose message names that check, without any POST; at most one    *)
(* POST is issued, also after a transport failure; one envelope is returned. *)
C2_StepOrder ==
    /\ IsPrefix(steps, StepOrder)
    /\ posts = Cardinality({i \in 1..Len(steps) : steps[i] = "post"})
    /\ posts <= 1
    /\ (envelope # NoEnvelope) <=> Returned
    /\ Returned =>
         IF ~validate_date(date_iso)
         THEN /\ steps = <<"validate_date">>
              /\ posts = 0
              /\ IsError(envelope, "invalid_input")
              /\ envelope.message = Msg("Invalid date format: {}. Expected YYYY-MM-DD", date_iso)
         ELSE IF ~validate_time(time_24h)
         THEN /\ steps = <<"validate_date", "validate_time">>
              /\ posts = 0
              /\ IsError(envelope, "invalid_input")
              /\ envelope.message = Msg("Invalid time format: {}. Expected HH:MM", time_24h)
         ELSE IF DateLT(strptime(date_iso), today)
         THEN /\ steps = <<"validate_date", "validate_time", "check_past">>
              /\ posts = 0
              /\ IsError(envelope, "invalid_input")
              /\ envelope.message = Msg("Cannot search for past dates: {}", date_iso)
         ELSE /\ posts = 1
              /\ Len(steps) >= 4
              /\ ~(HasErrorType(envelope) /\ envelope.error_type = "invalid_input")

C2_Witness ==
    /\ Returned
    /\ StrictYMD(date_iso)
    /\ ~StrictTime(time_24h)
    /\ steps = <<"validate_date", "validate_time">>
    /\ posts = 0

(* C3, as stated: the date check passes iff the string is exactly YYYY-MM-DD *)
(* and a real calendar date; for every other string the search returns the   *)
(* invalid_input error envelope.                                             *)
C3_StrictDate ==
    /\ steps # <<>> => (DatePassed <=> StrictYMD(date_iso))
    /\ Returned /\ ~StrictYMD(date_iso) => IsError(envelope, "invalid_input")

(* C4, as stated: the time check passes iff the whole string is H:MM or      *)
(* HH:MM with hour 0-23 and minute 00-59; for every other time string, given *)
(* a valid date, the search returns the invalid_input error envelope.        *)
C4_StrictTime ==
    /\ Len(steps) >= 2 => (TimePassed <=> StrictTime(time_24h))
    /\ Returned /\ StrictYMD(date_iso) /\ ~StrictTime(time_24h)
         => IsError(envelope, "invalid_input")

(* C5: for a well-formed date and time the search returns the invalid_input  *)
(* envelope iff the date is strictly before the current date; a date equal   *)
(* to today goes on to the HTTP request.                                     *)
C5_PastDate ==
    StrictYMD(date_iso) /\ StrictTime(time_24h) =>
        /\ Returned =>
             ((HasErrorType(envelope) /\ envelope.error_type = "invalid_input")
                <=> DateLT(DateOf(date_iso), today))
        /\ Returned /\ DateOf(date_iso) = today => posts = 1
        /\ posts = 1 => ~DateLT(DateOf(date_iso), today)

C5_Witness ==
    /\ Returned
    /\ StrictYMD(date_iso) /\ StrictTime(time_24h)
    /\ DateOf(date_iso) = today
    /\ posts = 1

\* the POST returned a response whose body, after at most one byte-order
\* mark, is JSON
BodyIsJson(r) == r.json.valid /\ r.boms <= 1

(* C6, as stated: after validation, a timeout or connection failure gives    *)
(* network_error; a non-2xx status, a body that is not JSON or any other     *)
(* exception gives api_error; each with status "error", empty results and    *)
(* total_found 0.                                                            *)
C6_Original ==
    Returned /\ posts = 1 =>
        /\ response.kind \in {"timeout", "connection"} => IsError(envelope, "network_error")
        /\ response.kind = "other" => IsError(envelope, "api_error")
        /\ response.kind = "response" /\ response.status \notin 200..299
             => IsError(envelope, "api_error")
        /\ response.kind = "response" /\ ~BodyIsJson(response)
             => IsError(envelope, "api_error")

(* C6, amended: as C6 with "a 4xx or 5xx HTTP status" for "a non-2xx HTTP    *)
(* status"; a response with any other status is handled by its body alone.   *)
C6_Classification ==
    Returned /\ posts = 1 =>
        /\ response.kind \in {"timeout", "connection"} => IsError(envelope, "network_error")
        /\ response.kind = "other" => IsError(envelope, "api_error")
        /\ response.kind = "response" /\ response.status \in 400..599
             => IsError(envelope, "api_error")
        /\ response.kind = "response" /\ ~BodyIsJson(response)
             => IsError(envelope, "api_error")
        /\ response.kind = "response" /\ response.status \notin 400..599
             /\ BodyIsJson(response) => envelope.status = "success"
        /\ ~(HasErrorType(envelope) /\ envelope.error_type = "invalid_input")

C6_Witness ==
    /\ Returned
    /\ posts = 1
    /\ response.kind = "response"
    /\ response.status = 404
    /\ response.json.valid
    /\ IsError(envelope, "api_error")

\* the items of the decoded body's results list (none when there is no list)
ResponseItems ==
    IF IsDict(response_data) /\ "results" \in DOMAIN response_data.d
       /\ response_data.d["results"].t = "list"
    THEN response_data.d["results"].l
    ELSE <<>>

\* the normalisation ran
Parsed == Returned /\ Len(steps) = 6

\* an item the claim calls failing: not an object, or a non-numeric totalPrice
FailingItem(item) ==
    \/ item.t # "dict"
    \/ "totalPrice" \in DOMAIN item.d /\ item.d["totalPrice"].t \notin {"num", "bool"}

(* C7, as stated: when normalising some item of the results list raises, the *)
(* parse gives an empty list, never the records before the failure, and the  *)
(* search returns a success envelope with total_found 0 and no results.      *)
C7_EmptyOnException ==
    Parsed /\ (\E k \in 1..Len(ResponseItems) : FailingItem(ResponseItems[k])) =>
        /\ envelope.status = "success"
        /\ envelope.total_found = 0
        /\ envelope.results = <<>>

\* v is absent (the default) or a string
AbsentOrStr(d, k) == k \in DOMAIN d.d => d.d[k].t = "str"

\* an item with every field the normaliser reads absent or of its expected type
WellFormedItem(item) ==
    /\ item.t = "dict"
    /\ "totalPrice" \in DOMAIN item.d => item.d["totalPrice"].t = "num"
    /\ "facility" \in DOMAIN item.d =>
         LET f == item.d["facility"] IN
         /\ f.t = "dict"
         /\ AbsentOrStr(f, "name")
         /\ "site" \in DOMAIN f.d =>
              LET s == f.d["site"] IN
              /\ s.t = "dict"
              /\ AbsentOrStr(s, "name")
              /\ "boroughs" \in DOMAIN s.d =>
                   /\ s.d["boroughs"].t = "list"
                   /\ s.d["boroughs"].l # <<>> =>
                        /\ s.d["boroughs"].l[1].t = "dict"
                        /\ AbsentOrStr(s.d["boroughs"].l[1], "name")

\* the value at a path of keys of nested objects, or the default where a key is absent
RECURSIVE AtPath(_, _, _)
AtPath(v, path, default) ==
    IF path = <<>> THEN v
    ELSE IF Head(path) \in DOMAIN v.d THEN AtPath(v.d[Head(path)], Tail(path), default)
    ELSE default

FirstBorough(item) ==
    LET bs == AtPath(item, <<"facility", "site", "boroughs">>, List(<<>>))
    IN  IF bs.l = <<>> THEN UnknownBorough ELSE AtPath(bs.l[1], <<"name">>, UnknownBorough)

\* digits, a dot, two digits
TwoDecimals(p) ==
    /\ Len(p) >= 4
    /\ p[Len(p) - 2] = "."
    /\ \A i \in 1..Len(p) : i # Len(p) - 2 => p[i] \in DigitChars

(* C8: when the POST succeeds and the results list holds N well-formed items, *)
(* the envelope is a success with total_found = N = len(results), the records *)
(* in the order of the items, each with a two-decimal price and a non-null    *)
(* name, location and borough (the defaults where the field is absent); for   *)
(* N = 0 it is a success with total_found 0 and no results.                   *)
C8_WellFormed ==
    Parsed /\ (\A k \in 1..Len(ResponseItems) : WellFormedItem(ResponseItems[k])) =>
        /\ envelope.status = "success"
        /\ envelope.total_found = Len(ResponseItems)
        /\ Len(envelope.results) = Len(ResponseItems)
        /\ \A k \in 1..Len(ResponseItems) :
             LET r == envelope.results[k]
                 item == ResponseItems[k]
             IN  /\ TwoDecimals(r.price)
                 /\ r.name = AtPath(item, <<"facility", "name">>, UnknownCourt)
                 /\ r.location = AtPath(item, <<"facility", "site", "name">>, UnknownLocation)
                 /\ r.borough = FirstBorough(item)
                 /\ r.name # Null /\ r.location # Null /\ r.borough # Null

C8_Witness ==
    /\ Parsed
    /\ ResponseItems = <<ItemFull, ItemBare>>
    /\ envelope.total_found = 2
    /\ envelope.results[2].name = UnknownCourt
    /\ envelope.results[1].price = <<"8", ".", "1", "0">>

(* C9, as stated: main returns 1 whenever the envelope's status is "error"   *)
(* and 0 whenever it is "success", whatever --json and --limit are.          *)
C9_ExitCode ==
    pc = "exited" => exit_code = (IF envelope.status = "error" THEN 1 ELSE 0)

\* an envelope without its api_response_time
Untimed(e) ==
    IF "api_response_time" \in DOMAIN e THEN [e EXCEPT !.api_response_time = <<>>] ELSE e

\* the returned invocation repeats the kept one: same arguments, same current
\* date, same backend response
RepeatsKept ==
    /\ Returned
    /\ kept.envelope # NoEnvelope
    /\ kept.date = date_iso /\ kept.time = time_24h
    /\ kept.today = today
    /\ kept.response = response

(* C10: two invocations with the same valid date and time, the same current  *)
(* date and the same backend response return envelopes equal in every field  *)
(* but api_response_time, whatever searches ran before or between them, on   *)
(* the same searcher or another.                                             *)
C10_Idempotent ==
    RepeatsKept /\ StrictYMD(date_iso) /\ StrictTime(time_24h) =>
        Untimed(envelope) = Untimed(kept.envelope)

C10_Witness ==
    /\ RepeatsKept
    /\ StrictYMD(date_iso) /\ StrictTime(time_24h)
    /\ entry = "method"
    /\ session = 2
    /\ envelope.status = "success"
    /\ envelope.results # <<>>
    /\ envelope.api_response_time # kept.envelope.api_response_time

-----------------------------------------------------------------------------
(* C11: _parse_price always returns a string with exactly two decimals:      *)
(* "0.00" for empty or absent input and for text whose digits, commas and    *)
(* dots do not make a number, and otherwise that number to two decimals, so  *)
(* "8,10 $" gives "8.10", "10,50 CAD" gives "10.50", "12,00" gives "12.00",  *)
(* "8.10" gives "8.10", and "", null and "Free" give "0.00".                 *)
C11_TwoDecimals ==
    call = "parse_price" =>
        /\ TwoDecimals(output.s)
        /\ ~Truthy(input) => output.s = ZeroPrice
        /\ Truthy(input) /\ FloatRaises(CommaToDot(Cleaned(input.s))) => output.s = ZeroPrice
        /\ input = Str(<<"8", ",", "1", "0", " ", "$">>) => output.s = <<"8", ".", "1", "0">>
        /\ input = Str(<<"1", "0", ",", "5", "0", " ", "C", "A", "D">>) => output.s = <<"1", "0", ".", "5", "0">>
        /\ input = Str(<<"1", "2", ",", "0", "0">>) => output.s = <<"1", "2", ".", "0", "0">>
        /\ input = Str(<<"8", ".", "1", "0">>) => output.s = <<"8", ".", "1", "0">>
        /\ input = Str(<<"F", "r", "e", "e">>) => output.s = ZeroPrice

\* the same for every price but the one beyond the floats
C11_FinitePrices == call = "parse_price" /\ input # Str(HugePrice) => C11_TwoDecimals

-----------------------------------------------------------------------------
\* the positions where the separator occurs in s
SepPositions(s) == {i \in DOMAIN s : SepAt(s, i)}

\* s holds the separator exactly once: it occurs, and no two occurrences are
\* apart (occurrences sharing a space count as one, as the split counts them)
SeparatorOnce(s) ==
    /\ SepPositions(s) # {}
    /\ \A i, j \in SepPositions(s) : i - j < 3 /\ j - i < 3

FirstSep(s) == CHOOSE i \in SepPositions(s) : \A j \in SepPositions(s) : i <= j

Stripped(s) == s = <<>> \/ (Head(s) \notin Whitespace /\ s[Len(s)] \notin Whitespace)

\* u is s without some leading and some trailing whitespace
StripOf(u, s) ==
    \E a, b \in 0..Len(s) :
        /\ a + b <= Len(s)
        /\ u = SubSeq(s, a + 1, Len(s) - b)
        /\ \A i \in (1..a) \cup ((Len(s) - b + 1)..Len(s)) : s[i] \in Whitespace

(* C12: _parse_time_range(s) returns (start, end), each stripped of          *)
(* surrounding whitespace, when s holds the separator " - " exactly once; it *)
(* returns (null, null) when s is null, empty, lacks the separator or holds  *)
(* it more than once; it never raises.                                       *)
C12_TimeRange ==
    call = "parse_time_range" =>
        IF Truthy(input) /\ SeparatorOnce(input.s)
        THEN LET s == input.s
                 i == FirstSep(s)
             IN  /\ output.t = "list"
                 /\ Len(output.l) = 2
                 /\ output.l[1].t = "str" /\ output.l[2].t = "str"
                 /\ Stripped(output.l[1].s) /\ StripOf(output.l[1].s, SubSeq(s, 1, i - 1))
                 /\ Stripped(output.l[2].s) /\ StripOf(output.l[2].s, SubSeq(s, i + 3, Len(s)))
        ELSE output = NoRange

\* a range with whitespace around its one separator has come back as its two
\* stripped halves
C12_Witness ==
    /\ call = "parse_time_range"
    /\ input = Str(<<"\t", "a", " ", "-", " ", "b", "\n">>)
    /\ output = List(<<Str(<<"a">>), Str(<<"b">>)>>)

-----------------------------------------------------------------------------
\* the first of the item's facilityScheduleId and facilityPricingId that is
\* present and not null, or null
FirstNonNull(item) ==
    IF Get(item, "facilityScheduleId", Null) # Null THEN item.d["facilityScheduleId"]
    ELSE Get(item, "facilityPricingId", Null)

(* C13, as stated: every record's reservation_id is the first non-null of    *)
(* its item's facilityScheduleId and facilityPricingId, null only when both  *)
(* are absent or null; an item whose facilityScheduleId is present but null  *)
(* and whose facilityPricingId is not null gets the facilityPricingId.       *)
C13_FirstNonNull ==
    Parsed =>
        \A k \in 1..Len(envelope.results) :
            envelope.results[k].reservation_id = FirstNonNull(ResponseItems[k])

\* the same for the items whose facilityScheduleId is absent or not null
C13_ScheduleNotNull ==
    Parsed =>
        \A k \in 1..Len(envelope.results) :
            Get(ResponseItems[k], "facilityScheduleId", Num(0)) # Null =>
                envelope.results[k].reservation_id = FirstNonNull(ResponseItems[k])

-----------------------------------------------------------------------------
\* s is laid out as an ISO-8601 UTC timestamp, YYYY-MM-DDTHH:MM:SS[.fff]Z
StampShape(s) ==
    /\ Len(s) \in {20, 24}
    /\ s[5] = "-" /\ s[8] = "-" /\ s[11] = "T" /\ s[14] = ":" /\ s[17] = ":"
    /\ s[Len(s)] = "Z"
    /\ Len(s) = 24 => s[20] = "."
    /\ \A i \in 1..(Len(s) - 1) : i \notin {5, 8, 11, 14, 17, 20} => s[i] \in DigitChars

StampField(s, i, n) == DigitsVal(SubSeq(s, i, i + n - 1))

\* v is the text of an ISO-8601 UTC timestamp of a real day and time
IsStamp(v) ==
    /\ v.t = "str"
    /\ StampShape(v.s)
    /\ StampField(v.s, 1, 4) >= 1
    /\ StampField(v.s, 6, 2) \in 1..12
    /\ StampField(v.s, 9, 2) \in 1..DaysInMonth(StampField(v.s, 1, 4), StampField(v.s, 6, 2))
    /\ StampField(v.s, 12, 2) \in 0..23
    /\ StampField(v.s, 15, 2) \in 0..59
    /\ StampField(v.s, 18, 2) \in 0..59

\* HH:MM four hours before the timestamp's HH:MM
FourHoursBefore(s) ==
    LET h == StampField(s, 12, 2)
    IN  Two(IF h >= 4 THEN h - 4 ELSE h + 20) \o <<":">> \o SubSeq(s, 15, 16)

\* the timestamp is within the first four hours of the year 1: the time four
\* hours before it is before the first date-time there is
BeforeFirstDay(s) ==
    /\ StampField(s, 1, 4) = 1 /\ StampField(s, 6, 2) = 1 /\ StampField(s, 9, 2) = 1
    /\ StampField(s, 12, 2) < 4

\* the items of the call and the records it returned
CallItems == input.d["results"].l

\* the item is emitted with its other fields, and the items after it are
\* processed
ItemsEmitted ==
    /\ Len(output.l) = Len(CallItems)
    /\ output.l[1].name = Str(<<"C">>)
    /\ output.l[1].price = <<"1", "0", ".", "5", "0">>
    /\ output.l[1].date = HelperDate
    /\ \A k \in 2..Len(CallItems) :
         /\ output.l[k].name = AtPath(CallItems[k], <<"facility", "name">>, UnknownCourt)
         /\ output.l[k].price = PriceText(CallItems[k].d["totalPrice"])

(* C14, as stated: start_time and end_time are computed independently; a     *)
(* timestamp that parses as ISO-8601 UTC with hour h and minute m gives      *)
(* HH:MM with hour (h - 4) mod 24 and minute m; a missing, empty or          *)
(* unparsable timestamp gives "Unknown" for that field only, the item is     *)
(* still emitted and the remaining items are still processed.                *)
C14_Original ==
    call = "parse_api_response" =>
        /\ ItemsEmitted
        /\ LET start == Get(CallItems[1], "startDateTime", Absent)
               end == Get(CallItems[1], "endDateTime", Absent)
           IN  /\ output.l[1].start_time =
                    IF IsStamp(start) THEN FourHoursBefore(start.s) ELSE Unknown
               /\ output.l[1].end_time =
                    IF IsStamp(end) THEN FourHoursBefore(end.s) ELSE Unknown

(* C14, amended: the same, but a timestamp within the first four hours of    *)
(* 0001-01-01, whose local time would be before the first date-time, gives   *)
(* "Unknown" for that field.                                                 *)
C14_LocalTimes ==
    call = "parse_api_response" =>
        /\ ItemsEmitted
        /\ LET start == Get(CallItems[1], "startDateTime", Absent)
               end == Get(CallItems[1], "endDateTime", Absent)
           IN  /\ output.l[1].start_time =
                    IF IsStamp(start) /\ ~BeforeFirstDay(start.s)
                    THEN FourHoursBefore(start.s) ELSE Unknown
               /\ output.l[1].end_time =
                    IF IsStamp(end) /\ ~BeforeFirstDay(end.s)
                    THEN FourHoursBefore(end.s) ELSE Unknown

\* an item starting at 03:59 UTC with no end gave 23:59 and "Unknown", and the
\* item after it was processed
C14_Witness ==
    /\ call = "parse_api_response"
    /\ CallItems = <<TimedItem(Str(Stamp(<<2025, 6, 20>>, 3, 59)), Absent), ItemNullSchedule>>
    /\ Len(output.l) = 2
    /\ output.l[1].start_time = <<"2", "3", ":", "5", "9">>
    /\ output.l[1].end_time = Unknown
    /\ output.l[2].price = <<"1", "2", ".", "3", "8">>


=============================================================================
